---- MODULE Spec2Model ----
(***************************************************************************)
(* Model of src/smc.py: the STLUtils engine (load_stl and the calculate_*  *)
(* operations) over bounded families of binary and text STL files.         *)
(*                                                                         *)
(* Numbers.  Coordinates are integers (exactly representable as float32    *)
(* and as Python floats).  A signed tetrahedron volume (1/6)*D is kept as  *)
(* its numerator D; a total volume sum/1000 is kept as the numerator of a  *)
(* fraction over VolumeDenominator = 6 * 1000.  A density is kept in       *)
(* hundredths, so a mass is a numerator over 100 * VolumeDenominator.  An  *)
(* area is kept as the sequence q_1..q_n of the squared cross-product      *)
(* norms it is built from: area = (sum of 0.5 * sqrt(q_i)) / 100.          *)
(***************************************************************************)
EXTENDS Integers, Sequences, FiniteSets, TLC

VARIABLES
    _f,               \* self._f: the file object of the last binary load
    _volume,          \* self._volume: the cached volume, or None
    _triangles,       \* self._triangles: the list of stored records
    triangles_count,  \* self.triangles_count
    is_binary_file,   \* self.is_binary_file: "None", "True" or "False"
    loadStatus,       \* history: how the most recent load_stl call ended
    last              \* observation: the last call, its argument and its outcome

vars == <<_f, _volume, _triangles, triangles_count, is_binary_file, loadStatus, last>>

(***************************************************************************)
(* Bounds of the model.                                                    *)
(***************************************************************************)
MaxRecs == 2        \* most records in a binary file
MaxFacets == 1      \* most facet blocks in a text file
MaxGeomCoord == 0   \* coordinates of SpecGeom range over -1..MaxGeomCoord

(***************************************************************************)
(* Program constants.                                                      *)
(***************************************************************************)
HeaderLen == 80        \* _read_header skips 80 bytes
CountLen == 4          \* _read_length reads 4 bytes
VecLen == 12           \* "<3f" is read from 12 bytes
AttrLen == 2           \* "<h" is read from 2 bytes
FacetStride == 7       \* i += 7 after a facet line
VolumeDenominator == 6000   \* (1.0 / 6.0) * ... / 1000
UnloadedCount == -1    \* triangles_count of a fresh engine
MassFailed == -1       \* calculate_mass returns -1 when mass <= 0

RecordLen == VecLen + VecLen + VecLen + VecLen + AttrLen

Min(a, b) == IF a <= b THEN a ELSE b
Max(a, b) == IF a >= b THEN a ELSE b

(***************************************************************************)
(* Values.  Python's None for self._volume is [some |-> FALSE].           *)
(***************************************************************************)
None == [some |-> FALSE, v |-> 0]
Some(x) == [some |-> TRUE, v |-> x]
ClosedFile == [open |-> FALSE, pos |-> 0]

\* A stored record: a (p1, p2, p3) tuple of vertices (binary load), or the
\* float that _read_ascii_triangle returns (text load).
Triple(p1, p2, p3) == [kind |-> "triple", p |-> <<p1, p2, p3>>, v |-> 0]
Float(d) == [kind |-> "float", p |-> <<>>, v |-> d]

(***************************************************************************)
(* Files.  A file is missing, or starts with "solid" (text: its lines), or *)
(* does not (binary layout: size bytes, the count field, and the records   *)
(* the bytes after the count field belong to, the last possibly cut).      *)
(***************************************************************************)
Vec(x, y, z) == <<x, y, z>>
Tri(a) == <<Vec(a, 0, 0), Vec(0, 1, 0), Vec(0, 0, 1)>>
Rec(t) == [n |-> Vec(7, 7, 7), p1 |-> t[1], p2 |-> t[2], p3 |-> t[3], attr |-> 0]

\* The triangles of the binary file family: signed volumes 1/6 and 2/6.
TriPool == {Tri(1), Tri(2)}

SeqsUpTo(S, n) == UNION {[1..k -> S] : k \in 0..n}

MissingFile ==
    [exists |-> FALSE, solid |-> FALSE, decodable |-> FALSE, size |-> 0,
     count |-> 0, recs |-> <<>>, lines |-> <<>>]

NoFile ==
    [exists |-> FALSE, solid |-> FALSE, decodable |-> FALSE, size |-> -1,
     count |-> 0, recs |-> <<>>, lines |-> <<>>]

BinFile(size, count, recs) ==
    [exists |-> TRUE, solid |-> FALSE, decodable |-> FALSE, size |-> size,
     count |-> count, recs |-> recs, lines |-> <<>>]

TextFile(lines, decodable) ==
    [exists |-> TRUE, solid |-> TRUE, decodable |-> decodable, size |-> 0,
     count |-> 0, recs |-> <<>>, lines |-> lines]

PrefixLen == HeaderLen + CountLen
CutBytes == 20     \* bytes missing from the end of a record cut short

RecSeqs == SeqsUpTo({Rec(t) : t \in TriPool}, MaxRecs)

\* For each record sequence: the count field declares one record fewer than
\* follow, as many, or one more (the file ends at a record boundary); or as
\* many while the last record is cut short.  And two files that end before
\* the count field does.
BinaryFiles ==
    {BinFile(PrefixLen + RecordLen * Len(x[1]), Len(x[1]) + x[2], x[1]) :
        x \in RecSeqs \X {-1, 0, 1}}
    \cup {BinFile(PrefixLen + RecordLen * Len(rs) - CutBytes, Len(rs), rs) :
             rs \in RecSeqs \ {<<>>}}
    \cup {BinFile(s, 0, <<>>) : s \in {0, PrefixLen - 2}}

\* A numeric literal of a text file: "-m", "m.0", "m.0e+00", ... ; its value
\* is sign * mag.  A line: its keyword and the numeric literals on it.
Lit(sign, mag, frac, exp) == [sign |-> sign, mag |-> mag, frac |-> frac, exp |-> exp]
Line(kw, lits) == [kw |-> kw, lits |-> lits]

\* The literal of integer x in a writing style: "fixed" 1.0, "int" 1,
\* "exp" 1.0e+00.
Written(style, x) ==
    Lit(IF x < 0 THEN -1 ELSE 1, IF x < 0 THEN -x ELSE x, style # "int", style = "exp")

VertexLine(style, v) ==
    Line("vertex", <<Written(style, v[1]), Written(style, v[2]), Written(style, v[3])>>)

\* A facet block of triangle t.  "standard": the seven conforming lines
\* facet, outer loop, three vertex lines, endloop, endfacet.  "loopless":
\* seven lines too, but the vertex lines directly follow the facet line.
FacetBlock(shape, style, t) ==
    LET facet == Line("facet", <<Written(style, 0), Written(style, 0), Written(style, 1)>>)
        vs == <<VertexLine(style, t[1]), VertexLine(style, t[2]), VertexLine(style, t[3])>>
    IN  IF shape = "standard"
        THEN <<facet, Line("outer loop", <<>>)>> \o vs
                 \o <<Line("endloop", <<>>), Line("endfacet", <<>>)>>
        ELSE <<facet>> \o vs
                 \o <<Line("endloop", <<>>), Line("endfacet", <<>>), Line("", <<>>)>>

Shapes == {"standard", "loopless"}
Styles == {"fixed", "int", "exp"}
TextTri == Tri(-1)

RECURSIVE Flatten(_)
Flatten(blocks) ==
    IF blocks = <<>> THEN <<>> ELSE Head(blocks) \o Flatten(Tail(blocks))

Conforming(blocks) ==
    <<Line("solid", <<>>)>> \o Flatten(blocks) \o <<Line("endsolid", <<>>)>>

\* Defects of a text file: the file ends after the third line of its last
\* block; the last block's third line after the facet line keeps two of its
\* numbers.
CutInBlock(blocks) ==
    SubSeq(Conforming(blocks), 1, 1 + FacetStride * (Len(blocks) - 1) + 3)

ShortVertex(blocks) ==
    LET ls == Conforming(blocks)
        k == 1 + FacetStride * (Len(blocks) - 1) + 4
    IN  [ls EXCEPT ![k] = Line("vertex", SubSeq(ls[k].lits, 1, 2))]

\* The blocks of a text file are written in one style; its shapes vary.
BlockSeqs(style) ==
    {[i \in DOMAIN shs |-> FacetBlock(shs[i], style, TextTri)] :
        shs \in SeqsUpTo(Shapes, MaxFacets)}

TextFiles ==
    {TextFile(Conforming(b), TRUE) : b \in UNION {BlockSeqs(st) : st \in Styles}}
    \cup {TextFile(Conforming(<<>>), FALSE)}
    \cup {TextFile(CutInBlock(b), TRUE) : b \in BlockSeqs("fixed") \ {<<>>}}
    \cup {TextFile(ShortVertex(b), TRUE) : b \in BlockSeqs("fixed") \ {<<>>}}

Files == {MissingFile} \cup BinaryFiles \cup TextFiles

(***************************************************************************)
(* Helpers of STLUtils.                                                    *)
(***************************************************************************)
\* _is_binary: the header does not start with "solid".  Opening a missing
\* file raises (IsBinaryRaises).
IsBinaryRaises(file) == ~file.exists
IsBinary(file) == ~file.solid

\* The formula with the sign of its last term slipped.
SignedVolumeSignSlip(p1, p2, p3) ==
    LET v321 == p3[1] * p2[2] * p1[3]
        v231 == p2[1] * p3[2] * p1[3]
        v312 == p3[1] * p1[2] * p2[3]
        v132 == p1[1] * p3[2] * p2[3]
        v213 == p2[1] * p1[2] * p3[3]
        v123 == p1[1] * p2[2] * p3[3]
    IN  (-v321) + v231 + v312 - v132 - v213 - v123

\* _signed_volume_of_triangle, as the numerator of (1.0 / 6.0) * (...).
SignedVolumeOfTriangle(p1, p2, p3) ==
    LET v321 == p3[1] * p2[2] * p1[3]
        v231 == p2[1] * p3[2] * p1[3]
        v312 == p3[1] * p1[2] * p2[3]
        v132 == p1[1] * p3[2] * p2[3]
        v213 == p2[1] * p1[2] * p3[3]
        v123 == p1[1] * p2[2] * p3[3]
    IN  (-v321) + v231 + v312 - v132 - v213 + v123

\* The bytes of a binary file at pos, as the field they encode.
FieldAt(file, pos) ==
    IF pos = HeaderLen THEN <<file.count>>
    ELSE LET i == ((pos - PrefixLen) \div RecordLen) + 1
             off == (pos - PrefixLen) % RecordLen
             r == file.recs[i]
         IN  CASE off = 0 -> r.n
               [] off = VecLen -> r.p1
               [] off = 2 * VecLen -> r.p2
               [] off = 3 * VecLen -> r.p3
               [] OTHER -> <<r.attr>>

\* _unpack(sig, l): self._f.read(l) returns the bytes left, at most l, and
\* struct.unpack raises unless it got l bytes.
Unpack(file, pos, l) ==
    [ok  |-> pos + l <= file.size,
     pos |-> IF pos >= file.size THEN pos ELSE Min(pos + l, file.size),
     val |-> IF pos + l <= file.size THEN FieldAt(file, pos) ELSE <<>>]

\* _read_length
ReadLength(file, pos) == Unpack(file, pos, CountLen)

\* _read_triangle: five reads; the first short read raises.
ReadTriangle(file, pos) ==
    LET n  == Unpack(file, pos, VecLen)
        p1 == Unpack(file, n.pos, VecLen)
        p2 == Unpack(file, p1.pos, VecLen)
        p3 == Unpack(file, p2.pos, VecLen)
        at == Unpack(file, p3.pos, AttrLen)
    IN  IF ~n.ok THEN [ok |-> FALSE, pos |-> n.pos, tri |-> Float(0)]
        ELSE IF ~p1.ok THEN [ok |-> FALSE, pos |-> p1.pos, tri |-> Float(0)]
        ELSE IF ~p2.ok THEN [ok |-> FALSE, pos |-> p2.pos, tri |-> Float(0)]
        ELSE IF ~p3.ok THEN [ok |-> FALSE, pos |-> p3.pos, tri |-> Float(0)]
        ELSE IF ~at.ok THEN [ok |-> FALSE, pos |-> at.pos, tri |-> Float(0)]
        ELSE [ok |-> TRUE, pos |-> at.pos, tri |-> Triple(p1.val, p2.val, p3.val)]

\* for _ in range(k): self._triangles.append(self._read_triangle())
RECURSIVE ReadLoop(_, _, _, _)
ReadLoop(file, pos, k, acc) ==
    IF k <= 0 THEN [ok |-> TRUE, pos |-> pos, tris |-> acc]
    ELSE LET r == ReadTriangle(file, pos)
         IN  IF ~r.ok THEN [ok |-> FALSE, pos |-> r.pos, tris |-> acc]
             ELSE ReadLoop(file, r.pos, k - 1, Append(acc, r.tri))

\* A loop that stops one record early.
ReadRecordsShort(file, pos, count) == ReadLoop(file, pos, count - 1, <<>>)

ReadRecords(file, pos, count) == ReadLoop(file, pos, count, <<>>)

\* re.findall(r"[-+]?\d*\.\d+|\d+", line) and float(): a literal with a
\* fraction keeps its sign; one without matches \d+ alone, so its sign is
\* dropped; the digits of an exponent are one more number.
TokensOf(lit) ==
    <<IF lit.frac THEN lit.sign * lit.mag ELSE lit.mag>>
        \o (IF lit.exp THEN <<0>> ELSE <<>>)

RECURSIVE FindAll(_)
FindAll(lits) ==
    IF lits = <<>> THEN <<>> ELSE TokensOf(Head(lits)) \o FindAll(Tail(lits))

\* _read_ascii_triangle(lines, index), index counted from 0: lines[index+1..3]
\* must exist, and each must hold three numbers for _signed_volume_of_triangle.
ReadAsciiTriangle(lines, index) ==
    IF index + 3 >= Len(lines) THEN [ok |-> FALSE, v |-> 0]
    ELSE LET p1 == FindAll(lines[index + 2].lits)
             p2 == FindAll(lines[index + 3].lits)
             p3 == FindAll(lines[index + 4].lits)
         IN  IF Len(p1) < 3 \/ Len(p2) < 3 \/ Len(p3) < 3
             THEN [ok |-> FALSE, v |-> 0]
             ELSE [ok |-> TRUE, v |-> SignedVolumeOfTriangle(p1, p2, p3)]

\* while i < len(lines): ...
RECURSIVE TextLoop(_, _, _)
TextLoop(lines, i, acc) ==
    IF i >= Len(lines) THEN [ok |-> TRUE, tris |-> acc]
    ELSE IF lines[i + 1].kw = "facet"
         THEN LET r == ReadAsciiTriangle(lines, i)
              IN  IF ~r.ok THEN [ok |-> FALSE, tris |-> acc]
                  ELSE TextLoop(lines, i + FacetStride, Append(acc, Float(r.v)))
         ELSE TextLoop(lines, i + 1, acc)

\* An except clause that does not clear the list.
OnLoadErrorKeep(partial) == partial

\* except Exception: self._triangles = []
OnLoadError(partial) == <<>>

(***************************************************************************)
(* The engine.                                                             *)
(***************************************************************************)
Obs(op, outcome, val, file) == [op |-> op, outcome |-> outcome, val |-> val, file |-> file]

\* STLUtils.__init__
Fresh ==
    [f |-> ClosedFile, volume |-> None, triangles |-> <<>>,
     count |-> UnloadedCount, binary |-> "None", status |-> "never"]

\* The binary branch of load_stl: the engine fields after it, and whether
\* an exception reached the except clause.
LoadBinary(e, file) ==
    LET len == ReadLength(file, HeaderLen)
        rd == ReadRecords(file, len.pos, len.val[1])
    IN  IF ~len.ok
        THEN [e EXCEPT !.f = [open |-> TRUE, pos |-> len.pos],
                       !.triangles = OnLoadError(<<>>), !.status = "failed"]
        ELSE IF ~rd.ok
        THEN [e EXCEPT !.f = [open |-> TRUE, pos |-> rd.pos], !.count = len.val[1],
                       !.triangles = OnLoadError(rd.tris), !.status = "failed"]
        ELSE [e EXCEPT !.f = [open |-> TRUE, pos |-> rd.pos], !.count = len.val[1],
                       !.triangles = rd.tris, !.status = "loaded"]

\* The text branch of load_stl; readlines raises on undecodable bytes.
LoadText(e, file) ==
    LET rd == TextLoop(file.lines, 0, <<>>)
    IN  IF ~file.decodable
        THEN [e EXCEPT !.triangles = OnLoadError(<<>>), !.status = "failed"]
        ELSE IF ~rd.ok
        THEN [e EXCEPT !.triangles = OnLoadError(rd.tris), !.status = "failed"]
        ELSE [e EXCEPT !.triangles = rd.tris, !.count = Len(rd.tris),
                       !.status = "loaded"]

\* load_stl(file): _is_binary runs before the try block, so its exception
\* leaves load_stl with no field assigned.
LoadStlOf(e, file) ==
    IF IsBinaryRaises(file) THEN [e EXCEPT !.status = "raised"]
    ELSE IF IsBinary(file) THEN LoadBinary([e EXCEPT !.binary = "True"], file)
    ELSE LoadText([e EXCEPT !.binary = "False"], file)

Engine ==
    [f |-> _f, volume |-> _volume, triangles |-> _triangles,
     count |-> triangles_count, binary |-> is_binary_file, status |-> loadStatus]

Becomes(e) ==
    /\ _f' = e.f
    /\ _volume' = e.volume
    /\ _triangles' = e.triangles
    /\ triangles_count' = e.count
    /\ is_binary_file' = e.binary
    /\ loadStatus' = e.status

Init ==
    /\ _f = Fresh.f
    /\ _volume = Fresh.volume
    /\ _triangles = Fresh.triangles
    /\ triangles_count = Fresh.count
    /\ is_binary_file = Fresh.binary
    /\ loadStatus = Fresh.status
    /\ last = Obs("init", "return", <<>>, NoFile)

LoadStl ==
    \E file \in Files :
        LET e == LoadStlOf(Engine, file)
        IN  /\ Becomes(e)
            /\ last' = Obs("load_stl", e.status, <<>>, file)

\* sum(_signed_volume_of_triangle(p1, p2, p3) for p1, p2, p3 in tris)
RECURSIVE SumSignedVolumes(_)
SumSignedVolumes(tris) ==
    IF tris = <<>> THEN 0
    ELSE SumSignedVolumes(SubSeq(tris, 1, Len(tris) - 1))
         + SignedVolumeOfTriangle(tris[Len(tris)].p[1], tris[Len(tris)].p[2],
                                  tris[Len(tris)].p[3])

\* "for p1, p2, p3 in self._triangles" raises TypeError on a float record.
Unpackable(tris) == \A i \in 1..Len(tris) : tris[i].kind = "triple"

\* calculate_volume with the cache consulted before the empty-list test.
CalculateVolumeCacheFirst(tris, volume) ==
    IF volume.some THEN [outcome |-> "return", val |-> <<volume.v>>, volume |-> volume]
    ELSE IF tris = <<>> THEN [outcome |-> "None", val |-> <<>>, volume |-> volume]
    ELSE IF ~Unpackable(tris) THEN [outcome |-> "TypeError", val |-> <<>>, volume |-> volume]
    ELSE [outcome |-> "return", val |-> <<SumSignedVolumes(tris)>>,
          volume |-> Some(SumSignedVolumes(tris))]

\* calculate_volume: the outcome, the value returned and the cache after it.
CalculateVolumeOf(tris, volume) ==
    IF tris = <<>> THEN [outcome |-> "None", val |-> <<>>, volume |-> volume]
    ELSE IF volume.some THEN [outcome |-> "return", val |-> <<volume.v>>, volume |-> volume]
    ELSE IF ~Unpackable(tris) THEN [outcome |-> "TypeError", val |-> <<>>, volume |-> volume]
    ELSE [outcome |-> "return", val |-> <<SumSignedVolumes(tris)>>,
          volume |-> Some(SumSignedVolumes(tris))]

\* calculate_mass(density): volume * density raises TypeError when
\* calculate_volume returned None.
CalculateMassOf(tris, volume, density) ==
    LET r == CalculateVolumeOf(tris, volume)
    IN  IF r.outcome = "None" THEN [r EXCEPT !.outcome = "TypeError"]
        ELSE IF r.outcome = "TypeError" THEN r
        ELSE IF r.val[1] * density <= 0 THEN [r EXCEPT !.val = <<MassFailed>>]
        ELSE [r EXCEPT !.val = <<r.val[1] * density>>]

\* The squared norm of the cross product of the edges p2 - p1 and p3 - p1.
CrossNormSquared(p1, p2, p3) ==
    LET ax == p2[1] - p1[1]
        ay == p2[2] - p1[2]
        az == p2[3] - p1[3]
        bx == p3[1] - p1[1]
        by == p3[2] - p1[2]
        bz == p3[3] - p1[3]
        cx == ay * bz - az * by
        cy == az * bx - ax * bz
        cz == ax * by - ay * bx
    IN  cx * cx + cy * cy + cz * cz

\* calculate_area
CalculateAreaOf(tris) ==
    IF tris = <<>> THEN [outcome |-> "None", val |-> <<>>]
    ELSE IF ~Unpackable(tris) THEN [outcome |-> "TypeError", val |-> <<>>]
    ELSE [outcome |-> "return",
          val |-> [i \in 1..Len(tris) |->
                      CrossNormSquared(tris[i].p[1], tris[i].p[2], tris[i].p[3])]]

\* calculate_triangles
CalculateTrianglesOf(tris, count) ==
    IF tris = <<>> THEN [outcome |-> "None", val |-> <<>>]
    ELSE [outcome |-> "return", val |-> <<count>>]

SetMax(S) == CHOOSE m \in S : \A x \in S : x <= m
SetMin(S) == CHOOSE m \in S : \A x \in S : m <= x

\* calculate_dimensions
CalculateDimensionsOf(tris) ==
    LET coords(k) == {tris[i].p[j][k] : i \in 1..Len(tris), j \in 1..3}
    IN  IF tris = <<>> THEN [outcome |-> "None", val |-> <<>>]
        ELSE IF ~Unpackable(tris) THEN [outcome |-> "TypeError", val |-> <<>>]
        ELSE [outcome |-> "return",
              val |-> <<SetMax(coords(1)) - SetMin(coords(1)),
                        SetMax(coords(2)) - SetMin(coords(2)),
                        SetMax(coords(3)) - SetMin(coords(3))>>]

\* Densities passed to calculate_mass, in hundredths: 0 and two of Materials.
Densities == {0, 104, 125}

CalculateVolume ==
    LET r == CalculateVolumeOf(_triangles, _volume)
    IN  /\ _volume' = r.volume
        /\ last' = Obs("calculate_volume", r.outcome, r.val, NoFile)
        /\ UNCHANGED <<_f, _triangles, triangles_count, is_binary_file, loadStatus>>

CalculateMass ==
    \E density \in Densities :
        LET r == CalculateMassOf(_triangles, _volume, density)
        IN  /\ _volume' = r.volume
            /\ last' = Obs("calculate_mass", r.outcome, r.val, NoFile)
            /\ UNCHANGED <<_f, _triangles, triangles_count, is_binary_file, loadStatus>>

CalculateArea ==
    LET r == CalculateAreaOf(_triangles)
    IN  /\ last' = Obs("calculate_area", r.outcome, r.val, NoFile)
        /\ UNCHANGED <<_f, _volume, _triangles, triangles_count, is_binary_file, loadStatus>>

CalculateTriangles ==
    LET r == CalculateTrianglesOf(_triangles, triangles_count)
    IN  /\ last' = Obs("calculate_triangles", r.outcome, r.val, NoFile)
        /\ UNCHANGED <<_f, _volume, _triangles, triangles_count, is_binary_file, loadStatus>>

CalculateDimensions ==
    LET r == CalculateDimensionsOf(_triangles)
    IN  /\ last' = Obs("calculate_dimensions", r.outcome, r.val, NoFile)
        /\ UNCHANGED <<_f, _volume, _triangles, triangles_count, is_binary_file, loadStatus>>

Next ==
    \/ LoadStl
    \/ CalculateVolume
    \/ CalculateMass
    \/ CalculateArea
    \/ CalculateTriangles
    \/ CalculateDimensions

Spec == Init /\ [][Next]_vars

(***************************************************************************)
(* The geometry alone: an engine that has loaded a one-record binary file  *)
(* whose vertices range over a coordinate grid, then measured.             *)
(***************************************************************************)
GeomCoord == (-1)..MaxGeomCoord
GeomVertex == GeomCoord \X GeomCoord \X GeomCoord

\* One record of arbitrary vertices, alone or followed by a second record.
InitGeom ==
    \E p1 \in GeomVertex, p2 \in GeomVertex, p3 \in GeomVertex :
      \E more \in {<<>>} \cup {<<Rec(t)>> : t \in TriPool} :
        LET recs == <<Rec(<<p1, p2, p3>>)>> \o more
            file == BinFile(PrefixLen + RecordLen * Len(recs), Len(recs), recs)
            e == LoadStlOf(Fresh, file)
        IN  /\ _f = e.f
            /\ _volume = e.volume
            /\ _triangles = e.triangles
            /\ triangles_count = e.count
            /\ is_binary_file = e.binary
            /\ loadStatus = e.status
            /\ last = Obs("load_stl", e.status, <<>>, file)

NextGeom == CalculateVolume

SpecGeom == InitGeom /\ [][NextGeom]_vars

(***************************************************************************)
(* Properties.                                                             *)
(***************************************************************************)
MeasureOps ==
    {"calculate_volume", "calculate_area", "calculate_triangles", "calculate_dimensions"}
CalcOps == MeasureOps \cup {"calculate_mass"}

\* The records a binary file declares, read off its layout: vertices 1..3 of
\* each of the first count records.
DeclaredTriangles(file) ==
    [i \in 1..file.count |->
        Triple(file.recs[i].p1, file.recs[i].p2, file.recs[i].p3)]

\* The volume numerator of a list of vertex triples, term by term.
RECURSIVE TotalOf(_)
TotalOf(tris) ==
    IF tris = <<>> THEN 0
    ELSE SignedVolumeOfTriangle(Head(tris).p[1], Head(tris).p[2], Head(tris).p[3])
         + TotalOf(Tail(tris))

\* C1: after a successful load of a binary file B holding at least one
\* triangle, the next calculate_volume() returns the volume of B's triangles,
\* whatever was cached before the load.
C1_ReloadResetsCachedVolume ==
    [][(/\ last.op = "load_stl"
        /\ last.outcome = "loaded"
        /\ IsBinary(last.file)
        /\ last.file.count >= 1
        /\ last'.op = "calculate_volume")
       => (/\ last'.outcome = "return"
           /\ last'.val = <<TotalOf(DeclaredTriangles(last.file))>>)]_vars

\* C2: whenever the most recent load failed during decoding, the engine holds
\* zero triangles and its stored count is -1.
C2_FailedDecodeLeavesCountUnloaded ==
    loadStatus = "failed" => (_triangles = <<>> /\ triangles_count = UnloadedCount)

\* C3: whenever the most recent load failed because the path could not be
\* opened, the engine holds no triangles and every measurement made since is
\* rejected as not loaded.
C3_IOFailureLeavesMeshEmpty ==
    loadStatus = "raised" =>
        /\ _triangles = <<>>
        /\ last.op \in CalcOps => last.outcome = "None"

\* C4: on a never-loaded engine every calculate_* call, calculate_mass for any
\* density included, ends in the not-loaded outcome (the error message and
\* None) and in no other failure.
C4_FreshEngineRejectsEveryMeasurement ==
    (loadStatus = "never" /\ last.op \in CalcOps) => last.outcome = "None"

\* C5 as stated: in every reachable state the stored triangles_count equals
\* the number of stored triangles.
C5_CountEqualsLength == triangles_count = Len(_triangles)

\* C5 as amended: whenever the engine holds at least one triangle, the stored
\* triangles_count equals the number of stored triangles.
C5_CountEqualsLengthWhenNonEmpty ==
    _triangles # <<>> => triangles_count = Len(_triangles)

C5_Witness ==
    /\ last.op = "load_stl"
    /\ last.outcome = "loaded"
    /\ Len(_triangles) = 2
    /\ triangles_count = 2

\* C6: every calculate_volume() call on a loaded mesh of triangles returns a
\* value, and that value is the sum of the signed tetrahedron volumes of the
\* currently stored triangles over 1000 (so consecutive calls with no load in
\* between return the same value).
C6_VolumeIsSumOfStoredTriangles ==
    (last.op = "calculate_volume" /\ _triangles # <<>> /\ Unpackable(_triangles)) =>
        (last.outcome = "return" /\ last.val = <<TotalOf(_triangles)>>)

\* The mesh with the winding of every triangle reversed.
ReverseWinding(tris) ==
    [i \in 1..Len(tris) |-> Triple(tris[i].p[1], tris[i].p[3], tris[i].p[2])]

ValueOf(lit) == lit.sign * lit.mag
PointOf(line) == <<ValueOf(line.lits[1]), ValueOf(line.lits[2]), ValueOf(line.lits[3])>>

\* A text file of k >= 1 conforming seven-line facet blocks between a solid
\* line and an endsolid line.
IsConformingText(file, k) ==
    /\ file.exists /\ file.solid /\ file.decodable
    /\ k >= 1
    /\ Len(file.lines) = FacetStride * k + 2
    /\ \A j \in 0..(k - 1) :
         LET at(n) == file.lines[1 + FacetStride * j + n]
         IN  /\ at(1).kw = "facet"
             /\ at(2).kw = "outer loop"
             /\ \A n \in 3..5 : at(n).kw = "vertex" /\ Len(at(n).lits) = 3
             /\ at(6).kw = "endloop"
             /\ at(7).kw = "endfacet"

\* C8: loading a text file of k >= 1 conforming facet blocks succeeds and
\* leaves exactly k records, the j-th being the three vertices of the j-th
\* block's vertex lines, and a triangle count of k.
C8_ConformingTextFileLoads ==
    \A k \in 1..(MaxFacets + 1) :
        (last.op = "load_stl" /\ IsConformingText(last.file, k)) =>
            /\ last.outcome = "loaded"
            /\ triangles_count = k
            /\ Len(_triangles) = k
            /\ \A j \in 1..Len(_triangles) :
                 LET at(n) == last.file.lines[1 + FacetStride * (j - 1) + n]
                 IN  _triangles[j] = Triple(PointOf(at(3)), PointOf(at(4)), PointOf(at(5)))

\* C9: after loading a binary file whose count field declares n >= 0 records:
\* if n complete records follow the prefix, the engine holds exactly n
\* triangles, the i-th being vertices 1..3 of the i-th record; otherwise the
\* load failed and the engine holds no triangle.
C9_BinaryLoadAllOrNothing ==
    (/\ last.op = "load_stl"
     /\ last.file.exists
     /\ IsBinary(last.file)
     /\ last.file.size >= PrefixLen
     /\ last.file.count >= 0) =>
        IF last.file.size >= PrefixLen + RecordLen * last.file.count
        THEN /\ last.outcome = "loaded"
             /\ _triangles = DeclaredTriangles(last.file)
        ELSE /\ last.outcome = "failed"
             /\ _triangles = <<>>

C9_Witness ==
    /\ last.op = "load_stl"
    /\ last.outcome = "loaded"
    /\ last.file.count = 2
    /\ Len(_triangles) = 2
    /\ _triangles[1] # _triangles[2]
    /\ _triangles[1].p = <<last.file.recs[1].p1, last.file.recs[1].p2, last.file.recs[1].p3>>

\* C10: once the most recent load has failed during decoding, calculate_volume,
\* calculate_area, calculate_triangles and calculate_dimensions all report the
\* not-loaded outcome, whatever was loaded or cached before.
C10_FailedDecodeRejectsMeasurements ==
    (loadStatus = "failed" /\ last.op \in MeasureOps) => last.outcome = "None"

C10_Witness ==
    /\ loadStatus = "failed"
    /\ _volume.some
    /\ last.op = "calculate_volume"
    /\ last.outcome = "None"

====
